---- MODULE Spec2Model ----
(***************************************************************************)
(* Model of tools/run_pipeline.py: merge_audio_files (normalise every      *)
(* non-wav file to wav, concatenate the directory into merged.wav, remove  *)
(* the intermediate files) and main (merge, write the .env credential      *)
(* file, run the pipeline process and wait for it).                        *)
(*                                                                         *)
(* A directory is a function from entry names to entries.  A name is a     *)
(* pair <<stem, suffix>>.  The audio of a file is the sequence of clips it *)
(* holds; a clip is identified by the name of the file that held it when   *)
(* the model starts, so that what ends up in merged.wav can be compared    *)
(* with what was in the directory.                                         *)
(***************************************************************************)
EXTENDS Integers, Sequences, FiniteSets, TLC

\* ------------------------------------------------------------- bounds
\* Largest number of entries in the directory at the start.
MaxFiles == 3
\* Largest number of successive calls of merge_audio_files by one caller.
MaxRuns == 2

\* ------------------------------------------------------ the file system
Stems == {"a", "b", "merged"}
Suffixes == {"wav", "mp3", "flac"}
FileNames == Stems \X Suffixes
\* A sub-directory of the examples directory (is_file() is false for it).
SubDir == <<"sub", "">>
EntryNames == FileNames \cup {SubDir}
Durations == {1, 2}

\* examples_dir / "merged.wav"
Output == <<"merged", "wav">>

RegularFile(audio) == [kind |-> "file", audio |-> audio]
Directory == [kind |-> "dir", audio |-> <<>>]

\* f.suffix.lower(): the model's suffixes are lower case already
Suffix(f) == f[2]
\* f.with_suffix(".wav")
WithSuffix(f, s) == <<f[1], s>>
\* f.exists()
Exists(d, f) == f \in DOMAIN d
\* f.is_file()
IsFile(d, f) == f \in DOMAIN d /\ d[f].kind = "file"
\* f.unlink()
Unlink(d, f) == [g \in DOMAIN d \ {f} |-> d[g]]
\* open(path, "wb") and write: creates the file or replaces its content
WriteFile(d, f, audio) ==
    [g \in DOMAIN d \cup {f} |-> IF g = f THEN RegularFile(audio) ELSE d[g]]
\* the regular files of a directory
Files(d) == {f \in DOMAIN d : d[f].kind = "file"}

RECURSIVE Flatten(_)
Flatten(ss) == IF ss = <<>> THEN <<>> ELSE Head(ss) \o Flatten(Tail(ss))

Perms(S) ==
    {p \in [1..Cardinality(S) -> S] : \A i, j \in 1..Cardinality(S) : p[i] = p[j] => i = j}

\* -------------------------------------------------------------- state
VARIABLES
    fs,          \* the examples directory: entry name -> entry
    fs0,         \* the directory when merge_audio_files was last called
    dur,         \* duration of each clip
    pc,          \* position in merge_audio_files
    todo,        \* entries of the iterdir() listing not yet yielded
    wav_files,   \* the list wav_files
    idx,         \* position of the cleanup loop in wav_files
    error,       \* the exception merge_audio_files raised, or "none"
    failed,      \* the file whose conversion raised, or <<>>
    concatCalls, \* calls of concat_audio_files_in_dir in this run
    unlinks,     \* files the cleanup loop removed in this run
    runs,        \* calls of merge_audio_files so far
    mpc,         \* position in main ("test": the caller is not main)
    env,         \* the process environment: variable -> value
    envFile,     \* the file repo_root/.env
    envFile0,    \* the file repo_root/.env when main started
    credDone,    \* the credential step of main has finished
    proc,        \* the pipeline process: "none", "running", "terminated"
    procStatus,  \* the exit status of the pipeline process
    launches,    \* pipeline processes started so far
    exitCode     \* the exit code of the run, -1 while it runs

mergeVars == <<fs, fs0, dur, pc, todo, wav_files, idx, error, failed,
               concatCalls, unlinks, runs>>
mainVars == <<mpc, env, envFile, envFile0, credDone, proc, procStatus,
              launches, exitCode>>
vars == <<mergeVars, mainVars>>

NoFile == <<>>

\* ------------------------------------------------- merge_audio_files
ConvertOutcomes == {"ok", "decode_error", "export_error"}

\* AudioSegment.from_file(f).export(wav_path, format="wav"): from_file raises
\* before anything is written; export opens wav_path for writing (which
\* truncates it) and raises while writing; otherwise wav_path holds f's audio.
FromFileExport(d, f, wav_path, outcome) ==
    CASE outcome = "ok" -> WriteFile(d, wav_path, d[f].audio)
      [] outcome = "decode_error" -> d
      [] outcome = "export_error" -> WriteFile(d, wav_path, <<>>)

ConvertError(outcome) ==
    IF outcome = "decode_error" THEN "DecodeError" ELSE "ExportError"

\* mutant: the source is removed only when the conversion succeeded
ConvertFile_UnlinkOnSuccess(d, f, wav_path, outcome) ==
    IF outcome = "ok"
    THEN Unlink(FromFileExport(d, f, wav_path, outcome), f)
    ELSE FromFileExport(d, f, wav_path, outcome)

\* try: convert  finally: f.unlink()
ConvertFile(d, f, wav_path, outcome) ==
    Unlink(FromFileExport(d, f, wav_path, outcome), f)

\* mutant: the source path is recorded instead of the converted one
ConvertedEntry_Source(f, wav_path) == f

\* wav_files.append(wav_path)
ConvertedEntry(f, wav_path) == wav_path

\* mutant: nothing to merge, return early
AfterLoop_ReturnWhenEmpty(wavs) == IF wavs = <<>> THEN "returned" ELSE "concat"

\* after the loop, concat_audio_files_in_dir is called unconditionally
AfterLoop(wavs) == "concat"

\* mutant: the output is not excluded from the cleanup
ShouldUnlink_AnyExisting(d, f) == Exists(d, f)

\* if f != output and f.exists()
ShouldUnlink(d, f) == f # Output /\ Exists(d, f)

\* concat_audio_files_in_dir (vanpy.utils.utils): the files it concatenates
ConcatEligible(d) == {f \in Files(d) : Suffix(f) = "wav"}
ConcatOutcomes == {"ok", "write_error"}
\* concat_audio_files_in_dir raises
ConcatRaises(d, outcome) == ConcatEligible(d) = {} \/ outcome = "write_error"
\* concat_audio_files_in_dir writes the audio of the files, in the order of
\* its directory scan, to output
ConcatAll(d, output, order) ==
    WriteFile(d, output, Flatten([i \in 1..Len(order) |-> d[order[i]].audio]))

\* lines 26-30: output, wav_files = [], the listing of iterdir()
Enter ==
    /\ pc \in {"idle", "returned"}
    /\ fs0' = fs
    /\ todo' = DOMAIN fs
    /\ wav_files' = <<>>
    /\ idx' = 0
    /\ error' = "none"
    /\ failed' = NoFile
    /\ concatCalls' = 0
    /\ unlinks' = 0
    /\ runs' = runs + 1
    /\ pc' = "loop"
    /\ UNCHANGED <<fs, dur>>

\* lines 31-37, the conversion succeeds
Convert ==
    /\ pc = "loop"
    /\ \E f \in todo :
        /\ Suffix(f) # "wav" /\ IsFile(fs, f)
        /\ LET wav_path == WithSuffix(f, "wav") IN
            /\ fs' = ConvertFile(fs, f, wav_path, "ok")
            /\ wav_files' = Append(wav_files, ConvertedEntry(f, wav_path))
        /\ todo' = todo \ {f}
    /\ UNCHANGED <<fs0, dur, pc, idx, error, failed, concatCalls, unlinks, runs>>
    /\ UNCHANGED mainVars

\* lines 31-36, the conversion raises: the finally clause runs, the
\* exception leaves merge_audio_files
ConvertRaises ==
    /\ pc = "loop"
    /\ \E f \in todo, outcome \in ConvertOutcomes \ {"ok"} :
        /\ Suffix(f) # "wav" /\ IsFile(fs, f)
        /\ fs' = ConvertFile(fs, f, WithSuffix(f, "wav"), outcome)
        /\ todo' = todo \ {f}
        /\ failed' = f
        /\ error' = ConvertError(outcome)
    /\ pc' = "raised"
    /\ UNCHANGED <<fs0, dur, wav_files, idx, concatCalls, unlinks, runs>>
    /\ UNCHANGED mainVars

\* lines 38-39
Keep ==
    /\ pc = "loop"
    /\ \E f \in todo :
        /\ ~(Suffix(f) # "wav" /\ IsFile(fs, f))
        /\ IsFile(fs, f)
        /\ wav_files' = Append(wav_files, f)
        /\ todo' = todo \ {f}
    /\ UNCHANGED <<fs, fs0, dur, pc, idx, error, failed, concatCalls, unlinks, runs>>
    /\ UNCHANGED mainVars

\* lines 31, 38: neither branch is taken
Skip ==
    /\ pc = "loop"
    /\ \E f \in todo :
        /\ ~(Suffix(f) # "wav" /\ IsFile(fs, f))
        /\ ~IsFile(fs, f)
        /\ todo' = todo \ {f}
    /\ UNCHANGED <<fs, fs0, dur, pc, wav_files, idx, error, failed, concatCalls,
                   unlinks, runs>>
    /\ UNCHANGED mainVars

\* line 30: the listing is exhausted
LoopExit ==
    /\ pc = "loop"
    /\ todo = {}
    /\ pc' = AfterLoop(wav_files)
    /\ UNCHANGED <<fs, fs0, dur, todo, wav_files, idx, error, failed, concatCalls,
                   unlinks, runs>>
    /\ UNCHANGED mainVars

\* line 41, the call returns
Concatenate ==
    /\ pc = "concat"
    /\ ~ConcatRaises(fs, "ok")
    /\ \E order \in Perms(ConcatEligible(fs)) : fs' = ConcatAll(fs, Output, order)
    /\ concatCalls' = concatCalls + 1
    /\ idx' = 1
    /\ pc' = "cleanup"
    /\ UNCHANGED <<fs0, dur, todo, wav_files, error, failed, unlinks, runs>>
    /\ UNCHANGED mainVars

\* line 41, the call raises
ConcatenateRaises ==
    /\ pc = "concat"
    /\ \E outcome \in ConcatOutcomes : ConcatRaises(fs, outcome)
    /\ concatCalls' = concatCalls + 1
    /\ error' = "ConcatenationError"
    /\ pc' = "raised"
    /\ UNCHANGED <<fs, fs0, dur, todo, wav_files, idx, failed, unlinks, runs>>
    /\ UNCHANGED mainVars

\* lines 44-46, the file is removed
CleanupUnlink ==
    /\ pc = "cleanup"
    /\ idx <= Len(wav_files)
    /\ ShouldUnlink(fs, wav_files[idx])
    /\ fs' = Unlink(fs, wav_files[idx])
    /\ unlinks' = unlinks + 1
    /\ idx' = idx + 1
    /\ UNCHANGED <<fs0, dur, pc, todo, wav_files, error, failed, concatCalls, runs>>
    /\ UNCHANGED mainVars

\* lines 44-45, the file is the output or is gone already
CleanupSkip ==
    /\ pc = "cleanup"
    /\ idx <= Len(wav_files)
    /\ ~ShouldUnlink(fs, wav_files[idx])
    /\ idx' = idx + 1
    /\ UNCHANGED <<fs, fs0, dur, pc, todo, wav_files, error, failed, concatCalls,
                   unlinks, runs>>
    /\ UNCHANGED mainVars

\* line 46: the cleanup loop ends and merge_audio_files returns
Return ==
    /\ pc = "cleanup"
    /\ idx > Len(wav_files)
    /\ pc' = "returned"
    /\ UNCHANGED <<fs, fs0, dur, todo, wav_files, idx, error, failed, concatCalls,
                   unlinks, runs>>
    /\ UNCHANGED mainVars

\* a caller (a test) calls merge_audio_files, again after it returned
Call ==
    /\ mpc = "test"
    /\ runs < MaxRuns
    /\ Enter
    /\ UNCHANGED mainVars

\* --------------------------------------------------------------- main
\* Largest number of entries in src/speech_examples when main starts.
MainMaxFiles == 2

EnvVars == {"HUGGINGFACE_ACCESS_TOKEN", "hf", "HF_TOKEN"}
\* os.getenv gives None for a variable that is not set
None == [set |-> FALSE, val |-> ""]
Str(v) == [set |-> TRUE, val |-> v]
\* the non-empty value a variable holds when it holds one
TokenOf(name) ==
    CASE name = "HUGGINGFACE_ACCESS_TOKEN" -> "primary"
      [] name = "hf" -> "secret"
      [] name = "HF_TOKEN" -> "abc123"
EnvValues(name) == {None, Str(""), Str(TokenOf(name))}
Environments == {e \in [EnvVars -> UNION {EnvValues(n) : n \in EnvVars}] :
                    \A n \in EnvVars : e[n] \in EnvValues(n)}

\* the file .env: absent, or present with a text
Absent == [exists |-> FALSE, text |-> ""]
Present(text) == [exists |-> TRUE, text |-> text]
OldEnvFile == Present("OTHER=1\n")

\* the exit statuses of the pipeline process
ExitStatuses == {0, 1, 2}
\* the exit code of the interpreter: main returned / an exception left main
ExitNormal == 0
ExitUncaught == 1

\* os.getenv(name)
getenv(e, name) == e[name]
\* the truth value of a str or None
Truthy(x) == x.set /\ x.val # ""
\* x or y
PyOr(x, y) == IF Truthy(x) THEN x ELSE y

\* mutant: the Codespaces secret is looked up first
LookupToken_HfFirst(e) ==
    PyOr(PyOr(getenv(e, "hf"), getenv(e, "HUGGINGFACE_ACCESS_TOKEN")),
         getenv(e, "HF_TOKEN"))

\* line 54
LookupToken(e) ==
    PyOr(PyOr(getenv(e, "HUGGINGFACE_ACCESS_TOKEN"), getenv(e, "hf")),
         getenv(e, "HF_TOKEN"))

\* f"huggingface_ACCESS_TOKEN={hf_token}\n"
EnvLine(token) == "huggingface_ACCESS_TOKEN=" \o token.val \o "\n"

\* lines 55-57: if hf_token: open(".env", "w") and write the line
WriteEnvFile(file, token) ==
    IF Truthy(token) THEN Present(EnvLine(token)) ELSE file

\* mutant: the exception of merge_audio_files is caught and main goes on
AfterMergeRaised_Swallowed == "credential"

\* line 52: an exception of merge_audio_files leaves main
AfterMergeRaised == "exited"

\* mutant: check=False
WaitRaises_NoCheck(status) == FALSE

\* line 59, check=True: a non-zero status raises CalledProcessError
WaitRaises(status) == status # 0

\* mutant: the process is started and not waited for
WaitOver_NoWait(p) == p \in {"running", "terminated"}

\* line 59: subprocess.run returns or raises once the process has terminated
WaitOver(p) == p = "terminated"

\* lines 50-52: main calls merge_audio_files
MainStart ==
    /\ mpc = "start"
    /\ Enter
    /\ mpc' = "merge"
    /\ UNCHANGED <<env, envFile, envFile0, credDone, proc, procStatus, launches,
                   exitCode>>

\* line 52: merge_audio_files returned
MergeReturned ==
    /\ mpc = "merge"
    /\ pc = "returned"
    /\ mpc' = "credential"
    /\ UNCHANGED mergeVars
    /\ UNCHANGED <<env, envFile, envFile0, credDone, proc, procStatus, launches,
                   exitCode>>

\* line 52: merge_audio_files raised
MergeRaised ==
    /\ mpc = "merge"
    /\ pc = "raised"
    /\ mpc' = AfterMergeRaised
    /\ exitCode' = IF AfterMergeRaised = "exited" THEN ExitUncaught ELSE exitCode
    /\ UNCHANGED mergeVars
    /\ UNCHANGED <<env, envFile, envFile0, credDone, proc, procStatus, launches>>

\* lines 54-57
Credential ==
    /\ mpc = "credential"
    /\ envFile' = WriteEnvFile(envFile, LookupToken(env))
    /\ credDone' = TRUE
    /\ mpc' = "launch"
    /\ UNCHANGED mergeVars
    /\ UNCHANGED <<env, envFile0, proc, procStatus, launches, exitCode>>

\* line 59: the process is started
Launch ==
    /\ mpc = "launch"
    /\ proc' = "running"
    /\ launches' = launches + 1
    /\ mpc' = "wait"
    /\ UNCHANGED mergeVars
    /\ UNCHANGED <<env, envFile, envFile0, credDone, procStatus, exitCode>>

\* line 59: the process cannot be started (OSError)
LaunchFails ==
    /\ mpc = "launch"
    /\ mpc' = "exited"
    /\ exitCode' = ExitUncaught
    /\ UNCHANGED mergeVars
    /\ UNCHANGED <<env, envFile, envFile0, credDone, proc, procStatus, launches>>

\* the pipeline process terminates
ProcExit ==
    /\ proc = "running"
    /\ \E s \in ExitStatuses : procStatus' = s
    /\ proc' = "terminated"
    /\ UNCHANGED mergeVars
    /\ UNCHANGED <<mpc, env, envFile, envFile0, credDone, launches, exitCode>>

\* lines 59-63: subprocess.run returns, main returns
WaitReturns ==
    /\ mpc = "wait"
    /\ WaitOver(proc)
    /\ ~WaitRaises(procStatus)
    /\ mpc' = "exited"
    /\ exitCode' = ExitNormal
    /\ UNCHANGED mergeVars
    /\ UNCHANGED <<env, envFile, envFile0, credDone, proc, procStatus, launches>>

\* lines 59-63: subprocess.run raises CalledProcessError
WaitRaisesError ==
    /\ mpc = "wait"
    /\ WaitOver(proc)
    /\ WaitRaises(procStatus)
    /\ mpc' = "exited"
    /\ exitCode' = ExitUncaught
    /\ UNCHANGED mergeVars
    /\ UNCHANGED <<env, envFile, envFile0, credDone, proc, procStatus, launches>>

\* ------------------------------------------------------ specifications
InitialDirs(max) ==
    {[f \in names |-> IF f = SubDir THEN Directory ELSE RegularFile(<<f>>)] :
        names \in {n \in SUBSET EntryNames : Cardinality(n) <= max}}

InitMerge ==
    /\ fs0 = fs
    /\ pc = "idle"
    /\ todo = {}
    /\ wav_files = <<>>
    /\ idx = 0
    /\ error = "none"
    /\ failed = NoFile
    /\ concatCalls = 0
    /\ unlinks = 0
    /\ runs = 0

InitProcess ==
    /\ envFile0 = envFile
    /\ credDone = FALSE
    /\ proc = "none"
    /\ procStatus = -1
    /\ launches = 0
    /\ exitCode = -1

\* merge_audio_files called by a test, on any directory
Init ==
    /\ fs \in InitialDirs(MaxFiles)
    /\ dur \in [Files(fs) -> Durations]
    /\ InitMerge
    /\ mpc = "test"
    /\ env = [n \in EnvVars |-> None]
    /\ envFile = Absent
    /\ InitProcess

MergeNext ==
    \/ Convert
    \/ ConvertRaises
    \/ Keep
    \/ Skip
    \/ LoopExit
    \/ Concatenate
    \/ ConcatenateRaises
    \/ CleanupUnlink
    \/ CleanupSkip
    \/ Return

Next ==
    \/ Call
    \/ MergeNext

Spec == Init /\ [][Next]_vars

\* the script run as a program
MainInit ==
    /\ fs \in InitialDirs(MainMaxFiles)
    /\ dur = [f \in Files(fs) |-> 1]
    /\ InitMerge
    /\ mpc = "start"
    /\ env \in Environments
    /\ envFile \in {Absent, OldEnvFile}
    /\ InitProcess

MainNext ==
    \/ MainStart
    \/ MergeNext
    \/ MergeReturned
    \/ MergeRaised
    \/ Credential
    \/ Launch
    \/ LaunchFails
    \/ ProcExit
    \/ WaitReturns
    \/ WaitRaisesError

MainSpec == MainInit /\ [][MainNext]_vars

\* ----------------------------------------------------------- measures
RECURSIVE Duration(_)
\* the duration of an audio: the sum of the durations of its clips
Duration(audio) ==
    IF audio = <<>> THEN 0 ELSE dur[Head(audio)] + Duration(Tail(audio))

RECURSIVE TotalDuration(_, _)
\* the sum of the durations of the files S of directory d
TotalDuration(d, S) ==
    IF S = {} THEN 0
    ELSE LET f == CHOOSE g \in S : TRUE
         IN Duration(d[f].audio) + TotalDuration(d, S \ {f})

\* how often clip c occurs in an audio
Occurrences(c, audio) == Cardinality({i \in 1..Len(audio) : audio[i] = c})

RECURSIVE TotalOccurrences(_, _, _)
\* how often clip c occurs in the files S of directory d
TotalOccurrences(c, d, S) ==
    IF S = {} THEN 0
    ELSE LET f == CHOOSE g \in S : TRUE
         IN Occurrences(c, d[f].audio) + TotalOccurrences(c, d, S \ {f})

Foreign(d) == {f \in Files(d) : Suffix(f) # "wav"}

\* -------------------------------------------------------------- claims

\* C1: when merge_audio_files returns, merged.wav is the only regular file of
\* the directory: every file present at the call, and every wav file a
\* conversion created, is gone.
C1_OnlyMergedRemains ==
    pc = "returned" =>
        /\ Files(fs) = {Output}
        /\ \A f \in Files(fs0) \ {Output} : ~Exists(fs, f)
        /\ \A f \in Foreign(fs0) : WithSuffix(f, "wav") # Output => ~Exists(fs, WithSuffix(f, "wav"))

\* a run returned on a directory that held a stale merged.wav, a foreign file
\* and another wav file
C1_Witness ==
    /\ pc = "returned"
    /\ runs = 1
    /\ Output \in Files(fs0)
    /\ Foreign(fs0) # {}
    /\ \E g \in Files(fs0) \ {Output} : Suffix(g) = "wav"

\* C2: when merge_audio_files returns, merged.wav holds every clip of every
\* file present at the call exactly once, and its duration is the sum of the
\* durations of those files.
C2_EveryInputMergedOnce ==
    pc = "returned" =>
        /\ Duration(fs[Output].audio) = TotalDuration(fs0, Files(fs0))
        /\ \A c \in FileNames :
            Occurrences(c, fs[Output].audio) = TotalOccurrences(c, fs0, Files(fs0))

\* two files of the directory at the call are written to the same wav path
SameStemCollision(d) ==
    \E f \in Foreign(d) : \E g \in Files(d) \ {f} : WithSuffix(g, "wav") = WithSuffix(f, "wav")

\* C2 holds of the directories in which no two files share a stem
C2_HoldsWithoutCollision ==
    (pc = "returned" /\ ~SameStemCollision(fs0)) =>
        /\ Duration(fs[Output].audio) = TotalDuration(fs0, Files(fs0))
        /\ \A c \in FileNames :
            Occurrences(c, fs[Output].audio) = TotalOccurrences(c, fs0, Files(fs0))

\* C3: when a conversion raised, merge_audio_files has stopped with that
\* error, the source of the failed conversion is gone, the entries not yet
\* visited are still there, neither the concatenation nor the cleanup ran, and
\* a merged.wav that exists is no merge: it is the stale one or what a
\* conversion of a file named merged.* wrote.
C3_ConversionFailureAborts ==
    failed # NoFile =>
        /\ pc = "raised"
        /\ error \in {"DecodeError", "ExportError"}
        /\ failed \in Foreign(fs0)
        /\ ~Exists(fs, failed)
        /\ \A g \in todo : Exists(fs, g)
        /\ concatCalls = 0
        /\ unlinks = 0 /\ idx = 0
        /\ Exists(fs, Output) =>
            \/ Output \in Files(fs0) /\ fs[Output] = fs0[Output]
            \/ \E g \in Foreign(fs0) :
                /\ WithSuffix(g, "wav") = Output
                /\ fs[Output].audio \in {fs0[g].audio, <<>>}

\* a conversion raised after another file was converted and before a wav file
\* was visited
C3_Witness ==
    /\ failed # NoFile
    /\ wav_files # <<>>
    /\ todo # {}

\* C4: called on a directory without files, merge_audio_files changes
\* nothing, does not return, and the error it raises is ConcatenationError.
C4_EmptyDirectoryRaises ==
    (runs >= 1 /\ Files(fs0) = {}) =>
        /\ fs = fs0
        /\ pc \in {"loop", "concat", "raised"}
        /\ pc = "raised" => error = "ConcatenationError"

\* the run on the empty directory has raised
C4_Witness ==
    /\ runs >= 1
    /\ DOMAIN fs0 = {}
    /\ pc = "raised"

\* C5: the run exits with 0 exactly when merge_audio_files returned and the
\* pipeline process terminated with status 0; otherwise it exits non-zero.
C5_ExitZeroIffSuccess ==
    mpc = "exited" =>
        /\ exitCode \in {ExitNormal, ExitUncaught}
        /\ exitCode = 0 <=> (pc = "returned" /\ proc = "terminated" /\ procStatus = 0)

\* the run exited with 0
C5_Witness ==
    /\ mpc = "exited"
    /\ exitCode = 0

\* C6 as stated: the run ends after the pipeline process and with its exit
\* status.
C6_ExitStatusPropagated ==
    (mpc = "exited" /\ launches > 0) =>
        /\ proc = "terminated"
        /\ exitCode = procStatus

\* C6 amended: the run ends after the pipeline process, with 0 when the
\* process exited with 0 and with 1 when it exited with any other status.
C6_WaitsAndReportsFailure ==
    (mpc = "exited" /\ launches > 0) =>
        /\ proc = "terminated"
        /\ exitCode = IF procStatus = 0 THEN 0 ELSE 1

\* the pipeline process exited with 2 and the run has ended
C6_Witness ==
    /\ mpc = "exited"
    /\ proc = "terminated"
    /\ procStatus = 2

\* the priority order of the token variables
Priority == <<"HUGGINGFACE_ACCESS_TOKEN", "hf", "HF_TOKEN">>
\* the value of the first variable of the priority order that satisfies P
FirstValue(P(_)) ==
    LET i == CHOOSE k \in 1..Len(Priority) :
                /\ P(env[Priority[k]])
                /\ \A j \in 1..(k - 1) : ~P(env[Priority[j]])
    IN env[Priority[i]].val
IsSet(x) == x.set
IsNonEmpty(x) == x.set /\ x.val # ""

\* C7 as stated: after the credential step .env holds the line for the first
\* variable that is set, and is untouched when none is set.
C7_FirstSetVariable ==
    credDone =>
        IF \E n \in EnvVars : IsSet(env[n])
        THEN envFile = Present("huggingface_ACCESS_TOKEN=" \o FirstValue(IsSet) \o "\n")
        ELSE envFile = envFile0

\* C7 amended: after the credential step .env holds the line for the first
\* variable that is set to a non-empty value, and is untouched when no
\* variable is set to a non-empty value.
C7_FirstNonEmptyVariable ==
    credDone =>
        IF \E n \in EnvVars : IsNonEmpty(env[n])
        THEN envFile = Present("huggingface_ACCESS_TOKEN=" \o FirstValue(IsNonEmpty) \o "\n")
        ELSE envFile = envFile0

\* the credential step ran with the primary variable empty, both others set
\* and an .env file in place
C7_Witness ==
    /\ credDone
    /\ env["HUGGINGFACE_ACCESS_TOKEN"] = Str("")
    /\ IsNonEmpty(env["hf"])
    /\ IsNonEmpty(env["HF_TOKEN"])
    /\ envFile0 = OldEnvFile

\* C8: a run that follows a successful run finds merged.wav as the only file,
\* converts nothing, can fail only in the write of the concatenation, and
\* returns with merged.wav as the only file, of the duration it had.
C8_SecondRun ==
    runs >= 2 =>
        /\ Files(fs0) = {Output}
        /\ failed = NoFile
        /\ pc \in {"loop", "concat", "cleanup", "returned", "raised"}
        /\ pc = "raised" => (error = "ConcatenationError" /\ ConcatEligible(fs) # {})
        /\ pc = "returned" =>
            /\ Files(fs) = {Output}
            /\ Duration(fs[Output].audio) = Duration(fs0[Output].audio)

\* the second run returned, the first having merged two files
C8_Witness ==
    /\ runs = 2
    /\ pc = "returned"
    /\ Len(fs[Output].audio) >= 2

\* C9: the pipeline process is started at most once, and only after
\* merge_audio_files returned and the credential step finished; the credential
\* step runs only after merge_audio_files returned; when merge_audio_files
\* raised, .env is as it was, no process is started and the run ends non-zero.
C9_StepsInOrder ==
    /\ launches <= 1
    /\ launches = 1 => (pc = "returned" /\ credDone)
    /\ credDone => pc = "returned"
    /\ mpc \in {"credential", "launch", "wait"} => pc = "returned"
    /\ pc = "raised" =>
        /\ mpc \in {"merge", "exited"}
        /\ envFile = envFile0
        /\ launches = 0 /\ proc = "none"
        /\ mpc = "exited" => exitCode = ExitUncaught

\* merge_audio_files raised in a run with a token set and an .env file in
\* place, and the run has ended
C9_Witness ==
    /\ pc = "raised"
    /\ mpc = "exited"
    /\ envFile0 = OldEnvFile
    /\ IsNonEmpty(env["hf"])

\* C10: when merge_audio_files returns on a directory that held a stale
\* merged.wav and other files, no clip of the stale merged.wav is in the new
\* merged.wav.
C10_StaleNotMerged ==
    (pc = "returned" /\ Output \in Files(fs0) /\ Files(fs0) # {Output}) =>
        \A i \in 1..Len(fs0[Output].audio) :
            Occurrences(fs0[Output].audio[i], fs[Output].audio) = 0

====
